---------------------------- MODULE Spec2Model ----------------------------
(***************************************************************************)
(* Bank Management System (src/bank.cpp): the account entity BankAccount,  *)
(* the ledger BankManagement and its operations, as a state machine.       *)
(*                                                                         *)
(* Balances and amounts are modelled as integers (whole currency units);   *)
(* the arithmetic of the source is on double, whose rounding, infinities   *)
(* and NaN are outside this model.  A PIN is the sequence of characters    *)
(* read by getline; a name is a string.                                    *)
(***************************************************************************)
EXTENDS Integers, Sequences, FiniteSets, TLC

VARIABLES accounts,  \* BankManagement::accounts, a vector<BankAccount>
          prev,      \* history: accounts as it was before the last operation
          last,      \* history: the last operation, its inputs and outcome
          file,      \* the file accounts_secure.txt: whether it exists, its text
          pc,        \* where main is: "start", "loop" or "exited"
          saved      \* history: the ledger that the last saveToFile wrote

vars == <<accounts, prev, last, file, pc, saved>>

---------------------------------------------------------------------------
(* Bounds of the model *)

\* Deposits are cut off when a balance would exceed MaxBalance.
MaxBalance == 3

\* The digest is taken modulo HashMod (the source's size_t is 64 bits wide).
HashMod == 11

---------------------------------------------------------------------------
(* Input domains *)

Digits == {"0", "1", "2", "3", "4", "5", "6", "7", "8", "9"}

\* Account numbers as the driver passes them on (getInt with min = 1).
AccountNums == {1, 2}

\* Account numbers any caller of the class may pass.
RawAccountNums == {0, 1}

Names == {"Alice", "Bob"}

\* The empty string is what BankAccount::updateName rejects.
AnyNames == Names \cup {""}

RawNames == {"", "Alice"}

PinA == <<"1", "2", "3", "4">>

PinB == <<"5", "6", "7", "8">>

\* A third four-digit PIN, whose digest equals that of PinA.
PinC == <<"0", "0", "4", "6">>

PinShort == <<"1", "2">>

PinAlpha == <<"1", "2", "3", "a">>

\* main, case Menu::CreateAccount: pin.size() == 4 and all_of(pin, isdigit).
IsFourDigitPin(pin) == Len(pin) = 4 /\ \A i \in 1..Len(pin) : pin[i] \in Digits

\* PINs the driver lets through when an account is created.
CreatePins == {pin \in {PinA, PinB, PinShort, PinAlpha} : IsFourDigitPin(pin)}

\* PINs any caller of the class may pass to addAccount.
RawPins == {PinA, PinShort, PinAlpha}

\* Lines a user may type when authenticate asks for the PIN.
TypedPins == {PinA, PinB, PinC}

InitialBalances == 0..MaxBalance

RawBalances == -1..1

\* Amounts: negative, zero, and up to one more than any balance.
Amounts == -1..(MaxBalance + 1)

---------------------------------------------------------------------------
(* Outcomes: the exception thrown (by its what() text) and the message     *)
(* printed.                                                                *)

NoEx == "none"

NoPin == <<"-">>

ExDepositPositive == "Deposit must be positive"

ExWithdrawPositive == "Withdrawal must be positive"

ExInsufficient == "Insufficient balance"

ExNameEmpty == "Name cannot be empty"

ExDuplicate == "Account number already exists"

ExNotFound == "One or both accounts not found"

ExSameAccount == "Cannot transfer to same account"

\* The texts thrown as std::invalid_argument, the source's validation error.
ValidationErrors == {ExDepositPositive, ExWithdrawPositive, ExNameEmpty}

MsgNotFound == "Account not found."

MsgAuthFailed == "Authentication failed. Invalid PIN."

---------------------------------------------------------------------------
(* BankAccount *)

\* The character's code, as std::hash reads the bytes of the string.
CharCode(c) ==
    CASE c = "0" -> 48 [] c = "1" -> 49 [] c = "2" -> 50 [] c = "3" -> 51
      [] c = "4" -> 52 [] c = "5" -> 53 [] c = "6" -> 54 [] c = "7" -> 55
      [] c = "8" -> 56 [] c = "9" -> 57 [] OTHER -> 97

RECURSIVE HashBytes(_)
HashBytes(s) ==
    IF s = <<>> THEN 0
    ELSE (HashBytes(SubSeq(s, 1, Len(s) - 1)) * 31 + CharCode(s[Len(s)])) % HashMod

\* BankAccount::hashPIN: std::hash<string>, a many-to-one digest of the bytes.
hashPIN(pin) == HashBytes(pin)

\* BankAccount::BankAccount(n, ac, bal, pin): no argument is checked.
BankAccount(n, ac, bal, pin) ==
    [name |-> n, accountNum |-> ac, balance |-> bal, pinHash |-> hashPIN(pin)]

verifyPIN(acc, pin) == acc.pinHash = hashPIN(pin)

\* Each mutator returns the exception it throws and the account afterwards.
\* Mutant: the test is amount < 0, so a deposit of zero is accepted.
BankAccount_deposit_acceptsZero(acc, amount) ==
    IF amount < 0 THEN [ex |-> ExDepositPositive, acc |-> acc]
    ELSE [ex |-> NoEx, acc |-> [acc EXCEPT !.balance = @ + amount]]

BankAccount_deposit(acc, amount) ==
    IF amount <= 0 THEN [ex |-> ExDepositPositive, acc |-> acc]
    ELSE [ex |-> NoEx, acc |-> [acc EXCEPT !.balance = @ + amount]]

\* Mutant: the funds check is missing.
BankAccount_withdraw_noFundsCheck(acc, amount) ==
    IF amount <= 0 THEN [ex |-> ExWithdrawPositive, acc |-> acc]
    ELSE [ex |-> NoEx, acc |-> [acc EXCEPT !.balance = @ - amount]]

\* Mutant: the funds check is balance <= amount, refusing to empty the account.
BankAccount_withdraw_strict(acc, amount) ==
    IF amount <= 0 THEN [ex |-> ExWithdrawPositive, acc |-> acc]
    ELSE IF acc.balance <= amount THEN [ex |-> ExInsufficient, acc |-> acc]
    ELSE [ex |-> NoEx, acc |-> [acc EXCEPT !.balance = @ - amount]]

\* Mutant: the test that the amount is positive is missing.
BankAccount_withdraw_noPositiveCheck(acc, amount) ==
    IF acc.balance < amount THEN [ex |-> ExInsufficient, acc |-> acc]
    ELSE [ex |-> NoEx, acc |-> [acc EXCEPT !.balance = @ - amount]]

BankAccount_withdraw(acc, amount) ==
    IF amount <= 0 THEN [ex |-> ExWithdrawPositive, acc |-> acc]
    ELSE IF acc.balance < amount THEN [ex |-> ExInsufficient, acc |-> acc]
    ELSE [ex |-> NoEx, acc |-> [acc EXCEPT !.balance = @ - amount]]

\* Mutant: the account is rebuilt under the new name, with the digest of an
\* empty PIN.
BankAccount_updateName_rebuilds(acc, newName) ==
    IF newName = "" THEN [ex |-> ExNameEmpty, acc |-> acc]
    ELSE [ex |-> NoEx, acc |-> BankAccount(newName, acc.accountNum, acc.balance, <<>>)]

BankAccount_updateName(acc, newName) ==
    IF newName = "" THEN [ex |-> ExNameEmpty, acc |-> acc]
    ELSE [ex |-> NoEx, acc |-> [acc EXCEPT !.name = newName]]

---------------------------------------------------------------------------
(* BankManagement: each operation maps the vector and its inputs to the    *)
(* vector afterwards, the exception thrown, the message printed, and       *)
(* whether authenticate ran ("none", "ok", "fail").                        *)

Outcome(accs, ex, out, auth) ==
    [accounts |-> accs, ex |-> ex, out |-> out, auth |-> auth]

\* BankManagement::authenticate: reads a line and verifies it.
authenticate(acc, pin) == verifyPIN(acc, pin)

\* BankManagement::findAccount: the index of the first match, 0 for nullopt.
findAccount(accs, accountNum) ==
    IF \E i \in 1..Len(accs) : accs[i].accountNum = accountNum
    THEN CHOOSE i \in 1..Len(accs) :
            /\ accs[i].accountNum = accountNum
            /\ \A j \in 1..(i - 1) : accs[j].accountNum # accountNum
    ELSE 0

\* Mutant: the duplicate check is missing.
addAccount_noDuplicateCheck(accs, name, accountNum, balance, pin) ==
    Outcome(Append(accs, BankAccount(name, accountNum, balance, pin)),
            NoEx, "Account created successfully.", "none")

\* Mutant: the account is appended before the duplicate check throws.
addAccount_appendThenThrow(accs, name, accountNum, balance, pin) ==
    IF \E i \in 1..Len(accs) : accs[i].accountNum = accountNum
    THEN Outcome(Append(accs, BankAccount(name, accountNum, balance, pin)),
                 ExDuplicate, "", "none")
    ELSE Outcome(Append(accs, BankAccount(name, accountNum, balance, pin)),
                 NoEx, "Account created successfully.", "none")

addAccount(accs, name, accountNum, balance, pin) ==
    IF \E i \in 1..Len(accs) : accs[i].accountNum = accountNum
    THEN Outcome(accs, ExDuplicate, "", "none")
    ELSE Outcome(Append(accs, BankAccount(name, accountNum, balance, pin)),
                 NoEx, "Account created successfully.", "none")

\* Mutant: the amount is credited before the PIN is checked.
deposit_creditBeforeAuth(accs, accNum, amount, pin) ==
    LET i == findAccount(accs, accNum) IN
    IF i = 0 THEN Outcome(accs, NoEx, MsgNotFound, "none")
    ELSE LET r == BankAccount_deposit(accs[i], amount) IN
         IF r.ex # NoEx THEN Outcome(accs, r.ex, "", "none")
         ELSE IF ~authenticate(accs[i], pin)
              THEN Outcome([accs EXCEPT ![i] = r.acc], NoEx, MsgAuthFailed, "fail")
              ELSE Outcome([accs EXCEPT ![i] = r.acc], NoEx, "Deposit successful.", "ok")

deposit(accs, accNum, amount, pin) ==
    LET i == findAccount(accs, accNum) IN
    IF i = 0 THEN Outcome(accs, NoEx, MsgNotFound, "none")
    ELSE IF ~authenticate(accs[i], pin) THEN Outcome(accs, NoEx, MsgAuthFailed, "fail")
    ELSE LET r == BankAccount_deposit(accs[i], amount) IN
         IF r.ex # NoEx THEN Outcome(accs, r.ex, "", "ok")
         ELSE Outcome([accs EXCEPT ![i] = r.acc], NoEx, "Deposit successful.", "ok")

\* Mutant: the amount is validated before the PIN is asked for.
withdraw_validatesBeforeAuth(accs, accNum, amount, pin) ==
    LET i == findAccount(accs, accNum) IN
    IF i = 0 THEN Outcome(accs, NoEx, MsgNotFound, "none")
    ELSE LET r == BankAccount_withdraw(accs[i], amount) IN
         IF r.ex # NoEx THEN Outcome(accs, r.ex, "", "none")
         ELSE IF ~authenticate(accs[i], pin)
              THEN Outcome(accs, NoEx, MsgAuthFailed, "fail")
              ELSE Outcome([accs EXCEPT ![i] = r.acc], NoEx, "Withdrawal successful.", "ok")

withdraw(accs, accNum, amount, pin) ==
    LET i == findAccount(accs, accNum) IN
    IF i = 0 THEN Outcome(accs, NoEx, MsgNotFound, "none")
    ELSE IF ~authenticate(accs[i], pin) THEN Outcome(accs, NoEx, MsgAuthFailed, "fail")
    ELSE LET r == BankAccount_withdraw(accs[i], amount) IN
         IF r.ex # NoEx THEN Outcome(accs, r.ex, "", "ok")
         ELSE Outcome([accs EXCEPT ![i] = r.acc], NoEx, "Withdrawal successful.", "ok")

\* Mutant: the destination is never credited.
transfer_noCredit(accs, fromAcc, toAcc, amount, pin) ==
    LET from == findAccount(accs, fromAcc)
        to == findAccount(accs, toAcc) IN
    IF from = 0 \/ to = 0 THEN Outcome(accs, ExNotFound, "", "none")
    ELSE IF fromAcc = toAcc THEN Outcome(accs, ExSameAccount, "", "none")
    ELSE IF ~authenticate(accs[from], pin) THEN Outcome(accs, NoEx, MsgAuthFailed, "fail")
    ELSE LET w == BankAccount_withdraw(accs[from], amount) IN
         IF w.ex # NoEx THEN Outcome(accs, w.ex, "", "ok")
         ELSE Outcome([accs EXCEPT ![from] = w.acc], NoEx, "Transfer successful.", "ok")

\* Mutant: the same-account check is missing.
transfer_noSameCheck(accs, fromAcc, toAcc, amount, pin) ==
    LET from == findAccount(accs, fromAcc)
        to == findAccount(accs, toAcc) IN
    IF from = 0 \/ to = 0 THEN Outcome(accs, ExNotFound, "", "none")
    ELSE IF ~authenticate(accs[from], pin) THEN Outcome(accs, NoEx, MsgAuthFailed, "fail")
    ELSE LET w == BankAccount_withdraw(accs[from], amount) IN
         IF w.ex # NoEx THEN Outcome(accs, w.ex, "", "ok")
         ELSE LET debited == [accs EXCEPT ![from] = w.acc]
                  d == BankAccount_deposit(debited[to], amount) IN
              IF d.ex # NoEx THEN Outcome(debited, d.ex, "", "ok")
              ELSE Outcome([debited EXCEPT ![to] = d.acc], NoEx,
                           "Transfer successful.", "ok")

\* The withdrawal is kept when the deposit that follows it throws.
transfer(accs, fromAcc, toAcc, amount, pin) ==
    LET from == findAccount(accs, fromAcc)
        to == findAccount(accs, toAcc) IN
    IF from = 0 \/ to = 0 THEN Outcome(accs, ExNotFound, "", "none")
    ELSE IF fromAcc = toAcc THEN Outcome(accs, ExSameAccount, "", "none")
    ELSE IF ~authenticate(accs[from], pin) THEN Outcome(accs, NoEx, MsgAuthFailed, "fail")
    ELSE LET w == BankAccount_withdraw(accs[from], amount) IN
         IF w.ex # NoEx THEN Outcome(accs, w.ex, "", "ok")
         ELSE LET debited == [accs EXCEPT ![from] = w.acc]
                  d == BankAccount_deposit(debited[to], amount) IN
              IF d.ex # NoEx THEN Outcome(debited, d.ex, "", "ok")
              ELSE Outcome([debited EXCEPT ![to] = d.acc], NoEx,
                           "Transfer successful.", "ok")

\* Mutant: a missing account is reported by throwing, as transfer does.
updateName_throwsWhenMissing(accs, accNum, newName, pin) ==
    LET i == findAccount(accs, accNum) IN
    IF i = 0 THEN Outcome(accs, ExNotFound, "", "none")
    ELSE IF ~authenticate(accs[i], pin) THEN Outcome(accs, NoEx, MsgAuthFailed, "fail")
    ELSE LET r == BankAccount_updateName(accs[i], newName) IN
         IF r.ex # NoEx THEN Outcome(accs, r.ex, "", "ok")
         ELSE Outcome([accs EXCEPT ![i] = r.acc], NoEx, "Account name updated.", "ok")

updateName(accs, accNum, newName, pin) ==
    LET i == findAccount(accs, accNum) IN
    IF i = 0 THEN Outcome(accs, NoEx, MsgNotFound, "none")
    ELSE IF ~authenticate(accs[i], pin) THEN Outcome(accs, NoEx, MsgAuthFailed, "fail")
    ELSE LET r == BankAccount_updateName(accs[i], newName) IN
         IF r.ex # NoEx THEN Outcome(accs, r.ex, "", "ok")
         ELSE Outcome([accs EXCEPT ![i] = r.acc], NoEx, "Account name updated.", "ok")

\* Mutant: the last element is moved into the slot and the vector shortened.
Erase_swapWithLast(accs, i) ==
    SubSeq([accs EXCEPT ![i] = accs[Len(accs)]], 1, Len(accs) - 1)

\* vector::erase at index i.
Erase(accs, i) == SubSeq(accs, 1, i - 1) \o SubSeq(accs, i + 1, Len(accs))

closeAccount(accs, accNum, pin) ==
    LET i == findAccount(accs, accNum) IN
    IF i = 0 THEN Outcome(accs, NoEx, MsgNotFound, "none")
    ELSE IF ~authenticate(accs[i], pin) THEN Outcome(accs, NoEx, MsgAuthFailed, "fail")
    ELSE Outcome(Erase(accs, i), NoEx, "Account closed successfully.", "ok")

IndexPermutations(n) ==
    {p \in [1..n -> 1..n] : \A i, j \in 1..n : i # j => p[i] # p[j]}

\* ranges::sort by the balance projection: the result is some arrangement of
\* the elements that is ordered by balance; the order of elements of equal
\* balance is not specified.
sortAccountsByBalance(accs) ==
    {[i \in 1..Len(accs) |-> accs[p[i]]] :
        p \in {q \in IndexPermutations(Len(accs)) :
                 \A i, j \in 1..Len(accs) :
                    i < j => accs[q[i]].balance <= accs[q[j]].balance}}

---------------------------------------------------------------------------
(* Persistence: the text written by BankAccount::save and read back by     *)
(* BankAccount::load.  A text is a sequence of characters.  The numbers of *)
(* this model are whole, and so are the texts that denote them: a text     *)
(* with more digits after the point than its exponent removes is outside   *)
(* the model.                                                              *)

\* The characters of a name.
NameText(name) ==
    CASE name = "" -> <<>>
      [] name = "Alice" -> <<"A", "l", "i", "c", "e">>
      [] name = "Bob" -> <<"B", "o", "b">>
      [] name = "B \"o\" \\b" -> <<"B", " ", "\"", "o", "\"", " ", "\\", "b">>
      [] name = "2" -> <<"2">>
      [] name = "Bob\n2 3 2 " -> <<"B", "o", "b", "\n", "2", " ", "3", " ", "2", " ">>

KnownNames == {"", "Alice", "Bob", "B \"o\" \\b", "2", "Bob\n2 3 2 "}

\* The name that has these characters.
TextName(chars) == CHOOSE name \in KnownNames : NameText(name) = chars

DigitValue(c) == CharCode(c) - 48

DigitChar(d) ==
    CASE d = 0 -> "0" [] d = 1 -> "1" [] d = 2 -> "2" [] d = 3 -> "3" [] d = 4 -> "4"
      [] d = 5 -> "5" [] d = 6 -> "6" [] d = 7 -> "7" [] d = 8 -> "8" [] d = 9 -> "9"

RECURSIVE Pow10(_)
Pow10(k) == IF k <= 0 THEN 1 ELSE 10 * Pow10(k - 1)

\* The decimal digits of n >= 0.
RECURSIVE DecimalDigits(_)
DecimalDigits(n) ==
    IF n < 10 THEN <<DigitChar(n)>>
    ELSE Append(DecimalDigits(n \div 10), DigitChar(n % 10))

\* ostream << int
FormatInt(n) == IF n < 0 THEN <<"-">> \o DecimalDigits(-n) ELSE DecimalDigits(n)

\* ostream << size_t
FormatUnsigned(n) == DecimalDigits(n)

\* The precision of an ostream that nobody has changed: significant digits.
StreamPrecision == 6

RECURSIVE StripTrailingZeros(_)
StripTrailingZeros(ds) ==
    IF Len(ds) > 1 /\ ds[Len(ds)] = "0"
    THEN StripTrailingZeros(SubSeq(ds, 1, Len(ds) - 1))
    ELSE ds

\* ostream << double, for a whole number: all its digits when there are at
\* most StreamPrecision of them, otherwise scientific notation with the value
\* rounded (half to even) to StreamPrecision significant digits.
FormatDouble(b) ==
    LET a == IF b < 0 THEN -b ELSE b
        sign == IF b < 0 THEN <<"-">> ELSE <<>>
        ds == DecimalDigits(a)
        n == Len(ds)
    IN  IF n <= StreamPrecision THEN sign \o ds
        ELSE LET unit == Pow10(n - StreamPrecision)
                 q == a \div unit
                 r == a % unit
                 up == (2 * r > unit) \/ (2 * r = unit /\ q % 2 = 1)
                 m0 == IF up THEN q + 1 ELSE q
                 carried == m0 = Pow10(StreamPrecision)
                 m == IF carried THEN m0 \div 10 ELSE m0
                 x == IF carried THEN n ELSE n - 1
                 md == StripTrailingZeros(DecimalDigits(m))
                 mant == IF Len(md) = 1 THEN md ELSE <<md[1], ".">> \o Tail(md)
                 xd == IF x < 10 THEN <<"0">> \o DecimalDigits(x) ELSE DecimalDigits(x)
             IN  sign \o mant \o <<"e", "+">> \o xd

\* std::quoted on output: the delimiters, and an escape before every quote
\* and backslash.
RECURSIVE Escaped(_)
Escaped(chars) ==
    IF chars = <<>> THEN <<>>
    ELSE (IF Head(chars) \in {"\"", "\\"} THEN <<"\\", Head(chars)>> ELSE <<Head(chars)>>)
         \o Escaped(Tail(chars))

Quoted(chars) == <<"\"">> \o Escaped(chars) \o <<"\"">>

\* BankAccount::save: accountNum balance pinHash "name", and a newline.
BankAccount_save(acc) ==
    FormatInt(acc.accountNum) \o <<" ">> \o FormatDouble(acc.balance) \o <<" ">>
        \o FormatUnsigned(acc.pinHash) \o <<" ">> \o Quoted(NameText(acc.name))
        \o <<"\n">>

RECURSIVE SaveAll(_)
SaveAll(accs) ==
    IF accs = <<>> THEN <<>> ELSE BankAccount_save(Head(accs)) \o SaveAll(Tail(accs))

ExCannotOpen == "Cannot open file for saving"

\* Mutant: a stream that did not open is not noticed.
saveToFile_ignoresOpenFailure(accs, f, canOpen) ==
    IF ~canOpen THEN [file |-> f, ex |-> NoEx]
    ELSE [file |-> [exists |-> TRUE, text |-> SaveAll(accs)], ex |-> NoEx]

\* BankManagement::saveToFile: the file afterwards and the exception thrown.
\* canOpen is whether the ofstream could be opened; opening truncates.
saveToFile(accs, f, canOpen) ==
    IF ~canOpen THEN [file |-> f, ex |-> ExCannotOpen]
    ELSE [file |-> [exists |-> TRUE, text |-> SaveAll(accs)], ex |-> NoEx]

(* Reading.  An extraction returns whether it succeeded, the value it read *)
(* and the text left in the stream.                                        *)

Whitespace == {" ", "\n"}

Extracted(ok, value, rest) == [ok |-> ok, value |-> value, rest |-> rest]

\* F of x, with x worked out once: one extraction, and then what follows it
\* on the stream as that extraction left it.
Then(x, F(_)) == CHOOSE r \in {F(v) : v \in {x}} : TRUE

RECURSIVE SkipWs(_)
SkipWs(s) == IF s # <<>> /\ Head(s) \in Whitespace THEN SkipWs(Tail(s)) ELSE s

\* The length of the longest prefix of s made of characters of set.
RECURSIVE SpanOf(_, _)
SpanOf(s, set) == IF s # <<>> /\ Head(s) \in set THEN 1 + SpanOf(Tail(s), set) ELSE 0

Drop(s, k) == SubSeq(s, k + 1, Len(s))

\* The number a sequence of digits denotes; 0 for no digits.
RECURSIVE ValueOf(_)
ValueOf(ds) ==
    IF ds = <<>> THEN 0
    ELSE 10 * ValueOf(SubSeq(ds, 1, Len(ds) - 1)) + DigitValue(ds[Len(ds)])

\* An optional sign: 1 or -1.
Sign(s) ==
    IF s # <<>> /\ Head(s) \in {"+", "-"}
    THEN Extracted(TRUE, IF Head(s) = "-" THEN -1 ELSE 1, Tail(s))
    ELSE Extracted(TRUE, 1, s)

\* The digits at the front of s, possibly none.
DigitRun(s) ==
    Then(SpanOf(s, Digits), LAMBDA k : Extracted(TRUE, SubSeq(s, 1, k), Drop(s, k)))

\* An optional sign and then digits, at least one.
SignedDigits(s) ==
    Then(Sign(s), LAMBDA sg :
    Then(DigitRun(sg.rest), LAMBDA ds :
        IF ds.value = <<>> THEN Extracted(FALSE, 0, ds.rest)
        ELSE Extracted(TRUE, sg.value * ValueOf(ds.value), ds.rest)))

\* istream >> int
ReadInt(s) == SignedDigits(SkipWs(s))

\* istream >> size_t, for the texts without a minus sign.
ReadSizeT(s) ==
    Then(SkipWs(s), LAMBDA t :
        IF t # <<>> /\ Head(t) = "-" THEN Extracted(FALSE, 0, t) ELSE SignedDigits(t))

\* A point and the digits after it, when there is a point.
Fraction(s) ==
    IF s # <<>> /\ Head(s) = "." THEN DigitRun(Tail(s)) ELSE Extracted(TRUE, <<>>, s)

\* An exponent, when there is one: e, an optional sign, digits.
Exponent(s) ==
    IF s # <<>> /\ Head(s) \in {"e", "E"} THEN SignedDigits(Tail(s))
    ELSE Extracted(TRUE, 0, s)

\* istream >> double: sign, digits, an optional point and digits, an optional
\* exponent.  The value is whole when the exponent removes the digits after
\* the point (as in every text FormatDouble writes); otherwise the quotient.
ReadDouble(s) ==
    Then(Sign(SkipWs(s)), LAMBDA sg :
    Then(DigitRun(sg.rest), LAMBDA ip :
    Then(Fraction(ip.rest), LAMBDA fp :
    Then(Exponent(fp.rest), LAMBDA ex :
        LET mantissa == ValueOf(ip.value \o fp.value)
            shift == ex.value - Len(fp.value)
            magnitude == IF shift >= 0 THEN mantissa * Pow10(shift)
                         ELSE mantissa \div Pow10(-shift)
        IN  IF Len(ip.value) + Len(fp.value) = 0 \/ ~ex.ok
            THEN Extracted(FALSE, 0, ex.rest)
            ELSE Extracted(TRUE, sg.value * magnitude, ex.rest)))))

\* The inside of a quoted string, after the opening quote: up to the closing
\* quote, a backslash taking the character after it literally.  The stream
\* fails when the text ends first.
RECURSIVE ReadDelimited(_, _)
ReadDelimited(s, got) ==
    IF s = <<>> THEN Extracted(FALSE, got, s)
    ELSE IF Head(s) = "\\"
         THEN IF Tail(s) = <<>> THEN Extracted(FALSE, got, <<>>)
              ELSE ReadDelimited(Tail(Tail(s)), Append(got, s[2]))
    ELSE IF Head(s) = "\"" THEN Extracted(TRUE, got, Tail(s))
    ELSE ReadDelimited(Tail(s), Append(got, Head(s)))

\* The length of the word at the front of s: up to the next whitespace.
RECURSIVE WordLen(_)
WordLen(s) == IF s # <<>> /\ Head(s) \notin Whitespace THEN 1 + WordLen(Tail(s)) ELSE 0

\* istream >> std::quoted(string): a text that does not open with a quote is
\* read as one word, up to the next whitespace.
ReadQuoted(s) ==
    Then(SkipWs(s), LAMBDA t :
        IF t = <<>> THEN Extracted(FALSE, <<>>, t)
        ELSE IF Head(t) = "\"" THEN ReadDelimited(Tail(t), <<>>)
        ELSE Then(WordLen(t), LAMBDA k : Extracted(TRUE, SubSeq(t, 1, k), Drop(t, k))))

\* BankAccount::load: the four fields one after the other from wherever the
\* stream stands; pinHash is stored as read, nothing is validated.
BankAccount_load(s) ==
    Then(ReadInt(s), LAMBDA ac :
    Then(ReadDouble(ac.rest), LAMBDA bal :
    Then(ReadSizeT(bal.rest), LAMBDA hash :
    Then(ReadQuoted(hash.rest), LAMBDA n :
        IF ac.ok /\ bal.ok /\ hash.ok /\ n.ok
        THEN Extracted(TRUE,
                       [name |-> TextName(n.value), accountNum |-> ac.value,
                        balance |-> bal.value, pinHash |-> hash.value],
                       n.rest)
        ELSE Extracted(FALSE, <<>>, <<>>)))))

\* The loop of loadFromFile: accounts are appended until a load fails.
RECURSIVE LoadAll(_)
LoadAll(s) ==
    Then(BankAccount_load(s), LAMBDA acc :
        IF acc.ok THEN <<acc.value>> \o LoadAll(acc.rest) ELSE <<>>)

\* Mutant: the ledger is cleared before the file is looked for.
loadFromFile_clearsFirst(accs, f) == IF ~f.exists THEN <<>> ELSE LoadAll(f.text)

\* BankManagement::loadFromFile: the ledger afterwards.  Without a file the
\* ledger is left as it is; with one it is replaced by what the file yields.
loadFromFile(accs, f) == IF ~f.exists THEN accs ELSE LoadAll(f.text)

---------------------------------------------------------------------------
(* The state machine *)

Op(op, accNum, toAcc, amount, name, pin, r) ==
    [op |-> op, accNum |-> accNum, toAcc |-> toAcc, amount |-> amount,
     name |-> name, pin |-> IF r.auth = "none" /\ op # "addAccount" THEN NoPin ELSE pin,
     ex |-> r.ex, out |-> r.out, auth |-> r.auth]

\* The driver is at its menu prompt, no operation's outcome on display.
AtMenu ==
    [op |-> "menu", accNum |-> 0, toAcc |-> 0, amount |-> 0, name |-> "",
     pin |-> NoPin, ex |-> NoEx, out |-> "", auth |-> "none"]

WithinBounds(accs) == \A i \in 1..Len(accs) : accs[i].balance <= MaxBalance

\* No file on disk.
NoFile == [exists |-> FALSE, text |-> <<>>]

\* Nothing has been saved.
NoLedger == [written |-> FALSE, accounts |-> <<>>]

Init ==
    /\ accounts = <<>>
    /\ prev = <<>>
    /\ last = AtMenu
    /\ file = NoFile
    /\ pc = "loop"
    /\ saved = NoLedger

AddAccount ==
    /\ last.op = "menu"
    /\ \E name \in Names, n \in AccountNums, bal \in InitialBalances, pin \in CreatePins :
         LET r == addAccount(accounts, name, n, bal, pin) IN
         /\ WithinBounds(r.accounts)
         /\ accounts' = r.accounts
         /\ last' = Op("addAccount", n, 0, bal, name, pin, r)
    /\ prev' = accounts
    /\ UNCHANGED <<file, pc, saved>>

AddAccountRaw ==
    /\ last.op = "menu"
    /\ \E name \in RawNames, n \in RawAccountNums, bal \in RawBalances, pin \in RawPins :
         LET r == addAccount(accounts, name, n, bal, pin) IN
         /\ WithinBounds(r.accounts)
         /\ accounts' = r.accounts
         /\ last' = Op("addAccount", n, 0, bal, name, pin, r)
    /\ prev' = accounts
    /\ UNCHANGED <<file, pc, saved>>

Deposit ==
    /\ last.op = "menu"
    /\ \E n \in AccountNums, amount \in Amounts, pin \in TypedPins :
         LET r == deposit(accounts, n, amount, pin) IN
         /\ WithinBounds(r.accounts)
         /\ accounts' = r.accounts
         /\ last' = Op("deposit", n, 0, amount, "", pin, r)
    /\ prev' = accounts
    /\ UNCHANGED <<file, pc, saved>>

Withdraw ==
    /\ last.op = "menu"
    /\ \E n \in AccountNums, amount \in Amounts, pin \in TypedPins :
         LET r == withdraw(accounts, n, amount, pin) IN
         /\ WithinBounds(r.accounts)
         /\ accounts' = r.accounts
         /\ last' = Op("withdraw", n, 0, amount, "", pin, r)
    /\ prev' = accounts
    /\ UNCHANGED <<file, pc, saved>>

Transfer ==
    /\ last.op = "menu"
    /\ \E a \in AccountNums, b \in AccountNums, amount \in Amounts, pin \in TypedPins :
         LET r == transfer(accounts, a, b, amount, pin) IN
         /\ WithinBounds(r.accounts)
         /\ accounts' = r.accounts
         /\ last' = Op("transfer", a, b, amount, "", pin, r)
    /\ prev' = accounts
    /\ UNCHANGED <<file, pc, saved>>

UpdateName ==
    /\ last.op = "menu"
    /\ \E n \in AccountNums, newName \in AnyNames, pin \in TypedPins :
         LET r == updateName(accounts, n, newName, pin) IN
         /\ accounts' = r.accounts
         /\ last' = Op("updateName", n, 0, 0, newName, pin, r)
    /\ prev' = accounts
    /\ UNCHANGED <<file, pc, saved>>

CloseAccount ==
    /\ last.op = "menu"
    /\ \E n \in AccountNums, pin \in TypedPins :
         LET r == closeAccount(accounts, n, pin) IN
         /\ accounts' = r.accounts
         /\ last' = Op("closeAccount", n, 0, 0, "", pin, r)
    /\ prev' = accounts
    /\ UNCHANGED <<file, pc, saved>>

SortAccounts ==
    /\ last.op = "menu"
    /\ \E sorted \in sortAccountsByBalance(accounts) :
         LET r == Outcome(sorted, NoEx, "Accounts sorted by balance.", "none") IN
         /\ accounts' = r.accounts
         /\ last' = Op("sortAccountsByBalance", 0, 0, 0, "", NoPin, r)
    /\ prev' = accounts
    /\ UNCHANGED <<file, pc, saved>>

\* The operation has returned (or its exception was caught and shown) and the
\* driver's loop comes round to the menu again.
ReturnToMenu ==
    /\ last.op # "menu"
    /\ pc = "loop"
    /\ last' = AtMenu
    /\ prev' = accounts
    /\ UNCHANGED <<accounts, file, pc, saved>>

Next ==
    \/ AddAccount
    \/ Deposit
    \/ Withdraw
    \/ Transfer
    \/ UpdateName
    \/ CloseAccount
    \/ SortAccounts
    \/ ReturnToMenu

\* The ledger driven with creation arguments the driver has validated.
Spec == Init /\ [][Next]_vars

NextRaw ==
    \/ AddAccountRaw
    \/ Deposit
    \/ Withdraw
    \/ Transfer
    \/ UpdateName
    \/ CloseAccount
    \/ SortAccounts
    \/ ReturnToMenu

\* The ledger driven by a caller of the class that validates nothing.
SpecRaw == Init /\ [][NextRaw]_vars

(* A ledger of up to three accounts, opened and closed. *)

WideAccountNums == {1, 2, 3}

WideBalances == {0, 1}

AddAccountWide ==
    /\ last.op = "menu"
    /\ \E n \in WideAccountNums, bal \in WideBalances, pin \in CreatePins :
         LET r == addAccount(accounts, "Alice", n, bal, pin) IN
         /\ accounts' = r.accounts
         /\ last' = Op("addAccount", n, 0, bal, "Alice", pin, r)
    /\ prev' = accounts
    /\ UNCHANGED <<file, pc, saved>>

CloseAccountWide ==
    /\ last.op = "menu"
    /\ \E n \in WideAccountNums, pin \in TypedPins :
         LET r == closeAccount(accounts, n, pin) IN
         /\ accounts' = r.accounts
         /\ last' = Op("closeAccount", n, 0, 0, "", pin, r)
    /\ prev' = accounts
    /\ UNCHANGED <<file, pc, saved>>

NextClose ==
    \/ AddAccountWide
    \/ CloseAccountWide
    \/ ReturnToMenu

\* Accounts opened and closed, in a ledger of up to three.
SpecClose == Init /\ [][NextClose]_vars

(* The ledger saved to the file and loaded from it. *)

FileNames == {"Alice", "B \"o\" \\b"}

FileBalances == {1, 999999, 1234567}

FilePins == {PinA}

\* A file whose first line lacks the name.
MissingNameText ==
    <<"1", " ", "5", " ", "3", "\n", "2", " ", "7", " ", "4", " ", "\"",
      "B", "o", "b", "\"", "\n">>

\* A file of two lines with the same account number.
DuplicateNumbersText ==
    <<"1", " ", "5", " ", "3", " ", "\"", "A", "l", "i", "c", "e", "\"",
      "\n", "1", " ", "7", " ", "4", " ", "\"", "B", "o", "b", "\"", "\n">>

\* A file whose second line is not a record.
GarbageLineText ==
    <<"1", " ", "5", " ", "3", " ", "\"", "A", "l", "i", "c", "e", "\"",
      "\n", "x", "\n", "2", " ", "7", " ", "4", " ", "\"", "B", "o", "b",
      "\"", "\n">>

\* A file whose first line does not close the quote of the name.
UnterminatedQuoteText ==
    <<"1", " ", "5", " ", "3", " ", "\"", "B", "o", "b", "\n", "2", " ",
      "3", " ", "2", " ", "\"", "A", "l", "i", "c", "e", "\"", "\n">>

\* The files that may lie at the path before the program first writes it:
\* none, an empty one, and ones written by hand.
InitialFiles ==
    {NoFile} \cup
    {[exists |-> TRUE, text |-> t] :
        t \in {<<>>, MissingNameText, DuplicateNumbersText, GarbageLineText,
               UnterminatedQuoteText}}

InitFile ==
    /\ accounts = <<>>
    /\ prev = <<>>
    /\ last = AtMenu
    /\ file \in InitialFiles
    /\ pc = "loop"
    /\ saved = NoLedger

AddAccountFile ==
    /\ last.op = "menu"
    /\ \E name \in FileNames, n \in AccountNums, bal \in FileBalances, pin \in FilePins :
         LET r == addAccount(accounts, name, n, bal, pin) IN
         /\ accounts' = r.accounts
         /\ last' = Op("addAccount", n, 0, bal, name, pin, r)
    /\ prev' = accounts
    /\ UNCHANGED <<file, pc, saved>>

SaveToFile ==
    /\ last.op = "menu"
    /\ \E canOpen \in BOOLEAN :
         LET r == saveToFile(accounts, file, canOpen) IN
         /\ file' = r.file
         /\ saved' = IF r.ex = NoEx THEN [written |-> TRUE, accounts |-> accounts]
                     ELSE saved
         /\ last' = Op("saveToFile", 0, 0, 0, "", NoPin, Outcome(accounts, r.ex, "", "none"))
    /\ prev' = accounts
    /\ UNCHANGED <<accounts, pc>>

LoadFromFile ==
    /\ last.op = "menu"
    /\ accounts' = loadFromFile(accounts, file)
    /\ last' = Op("loadFromFile", 0, 0, 0, "", NoPin, Outcome(accounts', NoEx, "", "none"))
    /\ prev' = accounts
    /\ UNCHANGED <<file, pc, saved>>

\* A fresh BankManagement: an empty ledger.
NewLedger ==
    /\ last.op = "menu"
    /\ accounts' = <<>>
    /\ last' = Op("newLedger", 0, 0, 0, "", NoPin, Outcome(<<>>, NoEx, "", "none"))
    /\ prev' = accounts
    /\ UNCHANGED <<file, pc, saved>>

NextFile ==
    \/ AddAccountFile
    \/ SaveToFile
    \/ LoadFromFile
    \/ NewLedger
    \/ ReturnToMenu

\* Ledgers saved to the file and loaded from it.
SpecFile == InitFile /\ [][NextFile]_vars

(* The whole run of main: load at the start, the menu, save at exit. *)

\* What an earlier run may have left at the path: nothing, or its ledger.
MainFiles ==
    {NoFile,
     [exists |-> TRUE, text |-> SaveAll(<<BankAccount("Alice", 1, 1, PinA)>>)]}

InitMain ==
    /\ accounts = <<>>
    /\ prev = <<>>
    /\ last = [AtMenu EXCEPT !.op = "start"]
    /\ file \in MainFiles
    /\ pc = "start"
    /\ saved = NoLedger

\* bank.loadFromFile(filename), before the loop is entered.
StartLoad ==
    /\ pc = "start"
    /\ accounts' = loadFromFile(accounts, file)
    /\ prev' = accounts'
    /\ last' = AtMenu
    /\ pc' = "loop"
    /\ UNCHANGED <<file, saved>>

\* case Menu::Exit: saveToFile, then return 0; when saveToFile throws, the
\* return is not reached, the handler prints the error and the loop goes on.
Exit ==
    /\ last.op = "menu"
    /\ pc = "loop"
    /\ \E canOpen \in BOOLEAN :
         LET r == saveToFile(accounts, file, canOpen) IN
         /\ file' = r.file
         /\ saved' = IF r.ex = NoEx THEN [written |-> TRUE, accounts |-> accounts]
                     ELSE saved
         /\ last' = Op("exit", 0, 0, 0, "", NoPin, Outcome(accounts, r.ex, "", "none"))
         /\ pc' = IF r.ex = NoEx THEN "exited" ELSE "loop"
    /\ prev' = accounts
    /\ UNCHANGED accounts

NextMain ==
    \/ StartLoad
    \/ AddAccount
    \/ Deposit
    \/ Withdraw
    \/ Transfer
    \/ UpdateName
    \/ CloseAccount
    \/ SortAccounts
    \/ Exit
    \/ ReturnToMenu

\* The program from its start to its exit.
SpecMain == InitMain /\ [][NextMain]_vars

---------------------------------------------------------------------------
(* Properties *)

\* The account numbered n in accs (n is present).
AccountOf(accs, n) == accs[findAccount(accs, n)]

Present(accs, n) == findAccount(accs, n) # 0

\* The operations that ask for the PIN of the one account they name.
GatedOps == {"deposit", "withdraw", "updateName", "closeAccount"}

\* C1: with every account created with a balance >= 0, every account of the
\* ledger has a balance >= 0 in every reachable state; and a withdraw or a
\* transfer of more than the source holds, once authenticated, throws
\* "Insufficient balance" and changes nothing (it does not clamp).
C1_BalanceNonNegative ==
    /\ \A i \in 1..Len(accounts) : accounts[i].balance >= 0
    /\ ( /\ last.op \in {"withdraw", "transfer"}
         /\ last.auth = "ok"
         /\ last.amount > AccountOf(prev, last.accNum).balance )
       => (last.ex = ExInsufficient /\ accounts = prev)

\* C1 witness: an authenticated withdrawal of more than the balance was refused.
C1_Witness ==
    /\ last.op = "withdraw"
    /\ last.auth = "ok"
    /\ last.amount > AccountOf(prev, last.accNum).balance
    /\ last.ex = ExInsufficient

\* C2: no two accounts of the ledger have the same account number.
C2_AccountNumbersUnique ==
    \A i, j \in 1..Len(accounts) :
        i # j => accounts[i].accountNum # accounts[j].accountNum

\* C2 witness: the ledger holds two accounts and addAccount was just called
\* with a number already present.
C2_Witness ==
    /\ Len(accounts) = 2
    /\ last.op = "addAccount"
    /\ Present(prev, last.accNum)

\* C3: deposit, withdraw, updateName and closeAccount on an account that
\* exists, and transfer between two distinct accounts that exist, ask for the
\* PIN (of the source, for transfer); when the PIN typed does not verify
\* against that account's stored digest the operation returns without
\* throwing and the ledger is exactly as before; and none of these operations
\* changes the ledger unless the PIN verified.
C3_PinCheckBeforeMutation ==
    /\ last.auth = "fail" => (last.ex = NoEx /\ accounts = prev)
    /\ ( \/ last.op \in GatedOps /\ Present(prev, last.accNum)
         \/ /\ last.op = "transfer"
            /\ Present(prev, last.accNum)
            /\ Present(prev, last.toAcc)
            /\ last.accNum # last.toAcc )
       => /\ last.auth # "none"
          /\ last.auth = "fail" <=> ~verifyPIN(AccountOf(prev, last.accNum), last.pin)
    /\ (last.op \in GatedOps \cup {"transfer"} /\ accounts # prev) => last.auth = "ok"

\* C3 witness: a withdrawal that the balance covers was stopped by a wrong PIN.
C3_Witness ==
    /\ last.op = "withdraw"
    /\ Present(prev, last.accNum)
    /\ last.amount > 0
    /\ last.amount <= AccountOf(prev, last.accNum).balance
    /\ ~verifyPIN(AccountOf(prev, last.accNum), last.pin)
    /\ last.auth = "fail"
    /\ accounts = prev

\* C4: a transfer between two distinct existing accounts a and b of an amount
\* with 0 < amount <= balance(a), with a PIN that verifies for a, debits a by
\* exactly amount and credits b by exactly amount, so the sum of the two
\* balances is unchanged; whether the PIN verifies for b plays no part.
C4_TransferMovesAmount ==
    ( /\ last.op = "transfer"
      /\ last.accNum # last.toAcc
      /\ Present(prev, last.accNum)
      /\ Present(prev, last.toAcc)
      /\ last.amount > 0
      /\ last.amount <= AccountOf(prev, last.accNum).balance
      /\ verifyPIN(AccountOf(prev, last.accNum), last.pin) )
    => /\ last.ex = NoEx
       /\ Present(accounts, last.accNum)
       /\ Present(accounts, last.toAcc)
       /\ AccountOf(accounts, last.accNum).balance
             = AccountOf(prev, last.accNum).balance - last.amount
       /\ AccountOf(accounts, last.toAcc).balance
             = AccountOf(prev, last.toAcc).balance + last.amount
       /\ AccountOf(accounts, last.accNum).balance + AccountOf(accounts, last.toAcc).balance
             = AccountOf(prev, last.accNum).balance + AccountOf(prev, last.toAcc).balance

\* C4 witness: a transfer went through with a PIN that verifies for the source
\* and does not verify for the destination.
C4_Witness ==
    /\ last.op = "transfer"
    /\ last.accNum # last.toAcc
    /\ last.ex = NoEx
    /\ last.auth = "ok"
    /\ last.amount > 0
    /\ ~verifyPIN(AccountOf(prev, last.toAcc), last.pin)
    /\ AccountOf(accounts, last.toAcc).balance
          = AccountOf(prev, last.toAcc).balance + last.amount

\* C5: a transfer from an existing account to itself throws "Cannot transfer
\* to same account" whatever the amount and the balance, and leaves the ledger
\* unchanged.
C5_SameAccountTransferFails ==
    ( /\ last.op = "transfer"
      /\ last.accNum = last.toAcc
      /\ Present(prev, last.accNum) )
    => (last.ex = ExSameAccount /\ accounts = prev)

\* C5 witness: a transfer to the same account of an amount the balance covers
\* was refused.
C5_Witness ==
    /\ last.op = "transfer"
    /\ last.accNum = last.toAcc
    /\ Present(prev, last.accNum)
    /\ last.amount > 0
    /\ last.amount <= AccountOf(prev, last.accNum).balance
    /\ last.ex = ExSameAccount

\* C6: addAccount with an account number already in the ledger throws
\* "Account number already exists", whatever the other arguments, and leaves
\* the ledger (contents, size and order) unchanged.
C6_DuplicateAccountFails ==
    (last.op = "addAccount" /\ Present(prev, last.accNum))
    => (last.ex = ExDuplicate /\ accounts = prev)

\* C6 witness: addAccount was refused for a duplicate number whose other
\* arguments differ from the existing account's.
C6_Witness ==
    /\ last.op = "addAccount"
    /\ Present(prev, last.accNum)
    /\ last.ex = ExDuplicate
    /\ last.name # AccountOf(prev, last.accNum).name
    /\ last.amount # AccountOf(prev, last.accNum).balance
    /\ ~verifyPIN(AccountOf(prev, last.accNum), last.pin)

\* C7: on an existing account with a PIN that verifies, deposit of an
\* amount > 0 raises the balance by exactly amount and nothing is thrown;
\* deposit of 0 or of a negative amount throws and the ledger is unchanged.
C7_DepositExact ==
    ( /\ last.op = "deposit"
      /\ Present(prev, last.accNum)
      /\ verifyPIN(AccountOf(prev, last.accNum), last.pin) )
    => IF last.amount > 0
       THEN /\ last.ex = NoEx
            /\ Present(accounts, last.accNum)
            /\ AccountOf(accounts, last.accNum).balance
                  = AccountOf(prev, last.accNum).balance + last.amount
       ELSE /\ last.ex = ExDepositPositive
            /\ accounts = prev

\* C7 witness: an authenticated deposit of a positive amount raised a balance
\* that was already positive by exactly that amount.
C7_Witness ==
    /\ last.op = "deposit"
    /\ last.auth = "ok"
    /\ last.amount > 0
    /\ last.ex = NoEx
    /\ AccountOf(prev, last.accNum).balance > 0
    /\ AccountOf(accounts, last.accNum).balance
          = AccountOf(prev, last.accNum).balance + last.amount

\* C8: on an existing account with a PIN that verifies, withdraw of more than
\* the balance throws "Insufficient balance" and leaves the balance unchanged;
\* withdraw of an amount with 0 < amount <= balance (the whole balance
\* included) lowers the balance by exactly amount.
C8_WithdrawExactOrRefused ==
    ( /\ last.op = "withdraw"
      /\ Present(prev, last.accNum)
      /\ verifyPIN(AccountOf(prev, last.accNum), last.pin) )
    => /\ last.amount > AccountOf(prev, last.accNum).balance
          => (last.ex = ExInsufficient /\ accounts = prev)
       /\ (last.amount > 0 /\ last.amount <= AccountOf(prev, last.accNum).balance)
          => /\ last.ex = NoEx
             /\ Present(accounts, last.accNum)
             /\ AccountOf(accounts, last.accNum).balance
                   = AccountOf(prev, last.accNum).balance - last.amount

\* C8 witness: an authenticated withdrawal of the whole balance left exactly 0.
C8_Witness ==
    /\ last.op = "withdraw"
    /\ last.auth = "ok"
    /\ last.amount > 0
    /\ last.amount = AccountOf(prev, last.accNum).balance
    /\ last.ex = NoEx
    /\ AccountOf(accounts, last.accNum).balance = 0

\* C9: addAccount with an empty name, an account number <= 0, an initial
\* balance < 0 or a PIN that is not exactly four digits throws a validation
\* error and adds nothing to the ledger.
C9_InvalidCreationRejected ==
    ( /\ last.op = "addAccount"
      /\ \/ last.name = ""
         \/ last.accNum <= 0
         \/ last.amount < 0
         \/ ~IsFourDigitPin(last.pin) )
    => (last.ex \in ValidationErrors /\ accounts = prev)

\* accs is ordered by balance, smallest first.
NonDecreasing(accs) ==
    \A i, j \in 1..Len(accs) : i < j => accs[i].balance <= accs[j].balance

\* after holds exactly the elements of before, rearranged by p.
ArrangedBy(p, before, after) ==
    /\ Len(after) = Len(before)
    /\ \A i \in 1..Len(after) : after[i] = before[p[i]]

\* C10: after sortAccountsByBalance the collection is non-decreasing in
\* balance, is a permutation of the accounts held before the call, and is
\* stable: accounts of equal balance keep their relative order.
C10_SortStablePermutation ==
    last.op = "sortAccountsByBalance"
    => /\ NonDecreasing(accounts)
       /\ \E p \in IndexPermutations(Len(prev)) :
            /\ ArrangedBy(p, prev, accounts)
            /\ \A i, j \in 1..Len(prev) :
                 (i < j /\ accounts[i].balance = accounts[j].balance) => p[i] < p[j]

\* C14: a transfer is all or nothing: whatever the accounts, the amount and
\* the PIN, after transfer has returned or thrown either the ledger is as it
\* was, or the source is debited and the destination credited by the same
\* amount and nothing was thrown; the source is never debited without the
\* destination being credited.
C14_TransferAllOrNothing ==
    last.op = "transfer"
    => \/ accounts = prev
       \/ /\ last.ex = NoEx
          /\ Present(prev, last.accNum) /\ Present(prev, last.toAcc)
          /\ Len(accounts) = Len(prev)
          /\ \A i \in 1..Len(prev) :
               accounts[i] =
                 [prev[i] EXCEPT !.balance =
                    IF prev[i].accountNum = last.accNum THEN @ - last.amount
                    ELSE IF prev[i].accountNum = last.toAcc THEN @ + last.amount
                    ELSE @]

\* C14 witness: an authenticated transfer of a non-positive amount between two
\* distinct accounts was refused by the withdrawal, before anything changed.
C14_Witness ==
    /\ last.op = "transfer"
    /\ last.auth = "ok"
    /\ last.amount <= 0
    /\ last.ex = ExWithdrawPositive
    /\ accounts = prev

\* The operation named an account number that is not in the ledger.
NamesMissingAccount ==
    \/ last.op \in GatedOps /\ ~Present(prev, last.accNum)
    \/ last.op = "transfer" /\ (~Present(prev, last.accNum) \/ ~Present(prev, last.toAcc))

\* C15 as claimed: an operation that names an account number not in the
\* ledger (deposit, withdraw, transfer with either side missing, updateName,
\* closeAccount) returns without throwing and leaves the ledger unchanged.
C15_MissingAccountNeverThrows ==
    NamesMissingAccount => (last.ex = NoEx /\ accounts = prev)

\* C15 as amended: deposit, withdraw, updateName and closeAccount on a number
\* not in the ledger print "Account not found.", throw nothing, ask for no PIN
\* and leave the ledger unchanged; transfer with either side missing throws
\* "One or both accounts not found", asks for no PIN and leaves the ledger
\* unchanged.
C15_MissingAccountAborts ==
    NamesMissingAccount
    => /\ accounts = prev
       /\ last.auth = "none"
       /\ IF last.op = "transfer"
          THEN last.ex = ExNotFound
          ELSE last.ex = NoEx /\ last.out = MsgNotFound

\* C15 witness: a transfer from an existing account that holds the amount to a
\* number that is not in the ledger threw and changed nothing.
C15_Witness ==
    /\ last.op = "transfer"
    /\ Present(prev, last.accNum)
    /\ ~Present(prev, last.toAcc)
    /\ last.amount > 0
    /\ last.amount <= AccountOf(prev, last.accNum).balance
    /\ last.ex = ExNotFound
    /\ accounts = prev

\* The account numbers held in accs.
NumbersOf(accs) == {accs[i].accountNum : i \in 1..Len(accs)}

\* C17: from its creation by addAccount until closeAccount removes it, an
\* account keeps its account number and its PIN digest: every operation
\* leaves the digest of each account that stays in the ledger as it was, and
\* deposit, withdraw, transfer, updateName and sortAccountsByBalance leave the
\* account numbers of the ledger as they were.
C17_NumberAndDigestImmutable ==
    last.op # "menu"
    => /\ \A n \in NumbersOf(prev) \cap NumbersOf(accounts) :
            AccountOf(accounts, n).pinHash = AccountOf(prev, n).pinHash
       /\ last.op \in {"deposit", "withdraw", "transfer", "updateName",
                       "sortAccountsByBalance"}
          => /\ Len(accounts) = Len(prev)
             /\ NumbersOf(accounts) = NumbersOf(prev)
       /\ last.op = "addAccount" => NumbersOf(prev) \subseteq NumbersOf(accounts)

\* C17 witness: an authenticated updateName changed the name of an account of
\* a two-account ledger.
C17_Witness ==
    /\ last.op = "updateName"
    /\ last.auth = "ok"
    /\ last.ex = NoEx
    /\ Len(accounts) = 2
    /\ AccountOf(accounts, last.accNum).name # AccountOf(prev, last.accNum).name

\* The exceptions by which BankAccount::deposit and BankAccount::withdraw
\* refuse an amount.
AmountErrors == {ExDepositPositive, ExWithdrawPositive, ExInsufficient}

\* C20: in deposit and withdraw the PIN is checked before the amount: an
\* amount error (not positive, or more than the balance) is thrown only after
\* authenticate has succeeded, and with a PIN that does not verify the
\* operation prints the authentication failure and throws nothing, whatever
\* the amount.
C20_PinCheckedBeforeAmount ==
    last.op \in {"deposit", "withdraw"}
    => /\ last.ex \in AmountErrors => last.auth = "ok"
       /\ ( /\ Present(prev, last.accNum)
            /\ last.pin # NoPin
            /\ ~verifyPIN(AccountOf(prev, last.accNum), last.pin) )
          => (last.ex = NoEx /\ last.out = MsgAuthFailed)
       /\ Present(prev, last.accNum) => last.pin # NoPin

\* C20 witness: a withdrawal of more than the balance with a wrong PIN returned
\* without throwing.
C20_Witness ==
    /\ last.op = "withdraw"
    /\ Present(prev, last.accNum)
    /\ last.amount > AccountOf(prev, last.accNum).balance
    /\ last.auth = "fail"
    /\ last.ex = NoEx

\* C16: closeAccount on an existing account with a PIN that verifies removes
\* exactly that account: the collection is one shorter, the accounts before it
\* and after it are unchanged and in the order they had, nothing is thrown,
\* and findAccount of that number then finds nothing.
C16_CloseRemovesExactlyOne ==
    ( /\ last.op = "closeAccount"
      /\ Present(prev, last.accNum)
      /\ verifyPIN(AccountOf(prev, last.accNum), last.pin) )
    => /\ last.ex = NoEx
       /\ Len(accounts) = Len(prev) - 1
       /\ \A k \in 1..Len(accounts) :
            accounts[k] = IF k < findAccount(prev, last.accNum) THEN prev[k]
                          ELSE prev[k + 1]
       /\ findAccount(accounts, last.accNum) = 0

\* C16 witness: the first of three accounts was closed, leaving the two that
\* followed it.
C16_Witness ==
    /\ last.op = "closeAccount"
    /\ last.auth = "ok"
    /\ Len(prev) = 3
    /\ findAccount(prev, last.accNum) = 1
    /\ Len(accounts) = 2

\* C11: after saveToFile succeeded on a non-empty ledger, loadFromFile of that
\* file on a fresh (empty) ledger yields the very sequence of accounts that was
\* saved: same length, same order, and at each position the same name,
\* accountNum, balance and pinHash.
C11_SaveLoadRoundTrip ==
    (/\ last.op = "loadFromFile"
     /\ prev = <<>>
     /\ saved.written
     /\ saved.accounts # <<>>
     /\ file = [exists |-> TRUE, text |-> SaveAll(saved.accounts)])
        => accounts = saved.accounts

\* C12: loadFromFile when no file exists at the path raises nothing and leaves
\* the accounts as they were before the call; an empty ledger stays empty.
C12_MissingFileKeepsLedger ==
    (last.op = "loadFromFile" /\ ~file.exists)
        => (last.ex = NoEx /\ accounts = prev)

C12_Witness ==
    /\ last.op = "loadFromFile"
    /\ ~file.exists
    /\ prev # <<>>
    /\ accounts = prev

RECURSIVE Lines(_)
Lines(s) ==
    IF s = <<>> THEN <<>>
    ELSE LET k == SpanOf(s, {c \in {s[i] : i \in 1..Len(s)} : c # "\n"})
         IN  <<SubSeq(s, 1, k)>> \o Lines(Drop(s, k + 1))

\* A line is a record of the format when the four fields can be read from it
\* and nothing but blanks is left.
ParsesAsRecord(line) ==
    LET r == BankAccount_load(line) IN r.ok /\ SkipWs(r.rest) = <<>>

\* The accounts of the longest prefix of lines that are records.
RECURSIVE LinePrefix(_)
LinePrefix(lines) ==
    IF lines = <<>> \/ ~ParsesAsRecord(Head(lines)) THEN <<>>
    ELSE <<BankAccount_load(Head(lines)).value>> \o LinePrefix(Tail(lines))

\* C18: loadFromFile of an existing file raises nothing and leaves the ledger
\* equal to the accounts of the longest prefix of the file's records (one per
\* line) that parse, in file order, whatever the ledger held before: nothing
\* from the first record that fails to parse onwards is loaded.
C18_LoadsLongestParsingPrefix ==
    (last.op = "loadFromFile" /\ file.exists)
        => (last.ex = NoEx /\ accounts = LinePrefix(Lines(file.text)))

\* C19: after loadFromFile of an existing file all of whose lines are
\* well-formed records, no two accounts of the ledger have the same accountNum.
C19_LoadedNumbersUnique ==
    (/\ last.op = "loadFromFile"
     /\ file.exists
     /\ \A i \in 1..Len(Lines(file.text)) : ParsesAsRecord(Lines(file.text)[i]))
        => \A i, j \in 1..Len(accounts) :
             accounts[i].accountNum = accounts[j].accountNum => i = j

===========================================================================
